---------------------------- MODULE Spec2Model ----------------------------
(***************************************************************************)
(* Model of src/src/response_formatter.py: the ResponseFormatter class,    *)
(* the module-level instance response_formatter and format_llm_response.   *)
(*                                                                         *)
(* A Python str is a sequence of characters; a character is a TLA+ string  *)
(* (one ASCII character, or a name for a non-ASCII one).  Markup produced  *)
(* by the f-string templates is a sequence too: every literal piece of a   *)
(* template is one element (a token), every interpolated str contributes   *)
(* its characters.                                                         *)
(***************************************************************************)
EXTENDS Integers, Sequences, FiniteSets, TLC

VARIABLES
    product_keywords,   \* response_formatter.product_keywords (shared instance field)
    brand_keywords,     \* response_formatter.brand_keywords   (shared instance field)
    pc,                 \* per calling thread: position inside format_response
    response,           \* per calling thread: the argument of format_response
    cleaned_response,   \* per calling thread: the local cleaned_response
    result,             \* per calling thread: the value returned to the caller
    op,                 \* direct call of one method: its name, "none" before the call
    arg,                \* direct call: the argument
    ret                 \* direct call: the returned value

vars == <<product_keywords, brand_keywords, pc, response, cleaned_response,
          result, op, arg, ret>>

---------------------------------------------------------------------------
(* Characters and str primitives *)

\* the characters of an ASCII literal
Chars(s) == [i \in 1..Len(s) |-> SubSeq(s, i, i)]

Rupee == "U+20B9"
Bullet == "U+2022"
\* a run of four hundred '9' digits, written as one element: every pattern of
\* the formatter reads digits through \d+, \d*, [\d,]+ or [^.\n]+, which take
\* the run whole
Nines400 == "9{400}"

AsciiDigits == {"0", "1", "2", "3", "4", "5", "6", "7", "8", "9"}

\* \d
IsDigit(c) == c \in AsciiDigits \cup {Nines400}

\* \s, and the characters str.strip() removes
IsSpace(c) == c \in {" ", "\t", "\n"}

UpperCase == Chars("ABCDEFGHIJKLMNOPQRSTUVWXYZ")
LowerCase == Chars("abcdefghijklmnopqrstuvwxyz")

\* str.lower()
lower(s) ==
    [i \in 1..Len(s) |->
        IF \E k \in 1..26 : UpperCase[k] = s[i]
        THEN LowerCase[CHOOSE k \in 1..26 : UpperCase[k] = s[i]]
        ELSE s[i]]

SetMin(S) == CHOOSE x \in S : \A y \in S : x <= y
SetMax(S) == CHOOSE x \in S : \A y \in S : x >= y

\* str.strip()
strip(s) ==
    LET keep == {i \in 1..Len(s) : ~IsSpace(s[i])}
    IN  IF keep = {} THEN <<>> ELSE SubSeq(s, SetMin(keep), SetMax(keep))

\* whether sub occurs at index i of s
StartsAt(s, i, sub) ==
    /\ i >= 1
    /\ i + Len(sub) - 1 <= Len(s)
    /\ SubSeq(s, i, i + Len(sub) - 1) = sub

\* sub in s
Contains(s, sub) == \E i \in 1..(Len(s) + 1) : StartsAt(s, i, sub)

\* [^.\n]
NotDotNewline(c) == c \notin {".", "\n"}

\* [\d,]
IsDigitOrComma(c) == IsDigit(c) \/ c = ","

\* whether character c is in the character class written cls
InClass(cls, c) ==
    CASE cls = "\\d" -> IsDigit(c)
      [] cls = "\\s" -> IsSpace(c)
      [] cls = "[^.\\n]" -> NotDotNewline(c)
      [] cls = "[\\d,]" -> IsDigitOrComma(c)

\* a greedy cls* from index p: the last index e >= p - 1 with s[p..e] in cls
RunEnd(s, p, cls) ==
    LET out == {i \in p..Len(s) : ~InClass(cls, s[i])}
    IN  IF out = {} THEN Len(s) ELSE SetMin(out) - 1

RECURSIVE ReplaceFrom(_, _, _, _)
ReplaceFrom(s, i, old, new) ==
    IF i > Len(s) THEN <<>>
    ELSE IF StartsAt(s, i, old)
         THEN new \o ReplaceFrom(s, i + Len(old), old, new)
         ELSE <<s[i]>> \o ReplaceFrom(s, i + 1, old, new)

\* str.replace(old, new), old non-empty: leftmost non-overlapping occurrences
replace(s, old, new) == ReplaceFrom(s, 1, old, new)

RECURSIVE SplitFrom(_, _, _, _)
SplitFrom(s, i, start, sep) ==
    IF i > Len(s) THEN <<SubSeq(s, start, Len(s))>>
    ELSE IF StartsAt(s, i, sep)
         THEN <<SubSeq(s, start, i - 1)>>
              \o SplitFrom(s, i + Len(sep), i + Len(sep), sep)
         ELSE SplitFrom(s, i + 1, start, sep)

\* str.split(sep), sep non-empty
split(s, sep) == SplitFrom(s, 1, 1, sep)

RECURSIVE Concat(_)
\* "".join(parts)
Concat(parts) ==
    IF parts = <<>> THEN <<>> ELSE Head(parts) \o Concat(Tail(parts))

RECURSIVE join(_, _)
\* sep.join(parts)
join(sep, parts) ==
    IF parts = <<>> THEN <<>>
    ELSE IF Len(parts) = 1 THEN parts[1]
    ELSE parts[1] \o sep \o join(sep, Tail(parts))

---------------------------------------------------------------------------
(* _clean_response *)

\* re.sub(r'\s+', ' ', s): every maximal whitespace run becomes one space
CollapseWhitespace(s) ==
    LET kept == SelectSeq([i \in 1..Len(s) |-> i],
                          LAMBDA i : ~IsSpace(s[i]) \/ i = 1 \/ ~IsSpace(s[i - 1]))
    IN  [k \in 1..Len(kept) |-> IF IsSpace(s[kept[k]]) THEN " " ELSE s[kept[k]]]

_clean_response(text) ==
    LET collapsed == CollapseWhitespace(strip(text))
        nobold == replace(collapsed, <<"*", "*">>, <<>>)
    IN  replace(nobold, <<"*">>, <<>>)

---------------------------------------------------------------------------
(* __init__ and _is_product_recommendation *)

\* __init__: self.product_keywords
ProductKeywords ==
    << Chars("smartphone"), Chars("laptop"), Chars("headphone"), Chars("phone"),
       Chars("computer"), Chars("tablet"), Chars("earphone"), Chars("speaker"),
       Chars("camera"), Chars("watch") >>

\* __init__: self.brand_keywords
BrandKeywords ==
    << Chars("samsung"), Chars("apple"), Chars("xiaomi"), Chars("realme"),
       Chars("oneplus"), Chars("google"), Chars("sony"), Chars("lg"),
       Chars("huawei"), Chars("oppo"), Chars("vivo"), Chars("motorola") >>

\* the list literal inside _is_product_recommendation
RecommendationWords ==
    << Chars("recommend"), Chars("suggest"), Chars("best"), Chars("top"),
       Chars("good"), Chars("excellent"), Chars("great") >>

\* any(w in text for w in words)
AnyIn(words, text) == \E k \in 1..Len(words) : Contains(text, words[k])

\* bool(re.search(r'\d+\.', text)): some non-empty digit run followed by '.'
has_numbered_list(text) ==
    \E i \in 1..Len(text) :
        /\ IsDigit(text[i])
        /\ LET e == RunEnd(text, i, "\\d")
           IN  e < Len(text) /\ text[e + 1] = "."

\* [-•*]
IsBulletMarker(c) == c \in {"-", Bullet, "*"}

\* bool(re.search(r'[-•*]\s', text)): no anchor, any position of the text
has_bullet_points(text) ==
    \E i \in 1..(Len(text) - 1) : IsBulletMarker(text[i]) /\ IsSpace(text[i + 1])

\* the bullet pattern anchored to the beginning of a line
_is_product_recommendation_anchored(self, text) ==
    LET response_lower == lower(text)
    IN  /\ \/ AnyIn(self.product_keywords, response_lower)
           \/ AnyIn(self.brand_keywords, response_lower)
        /\ \/ AnyIn(RecommendationWords, response_lower)
           \/ has_numbered_list(text)
           \/ \E i \in 1..(Len(text) - 1) :
                  /\ i = 1 \/ text[i - 1] = "\n"
                  /\ IsBulletMarker(text[i])
                  /\ IsSpace(text[i + 1])

_is_product_recommendation(self, text) ==
    LET response_lower == lower(text)
        has_product_keywords == AnyIn(self.product_keywords, response_lower)
        has_brand_keywords == AnyIn(self.brand_keywords, response_lower)
        has_recommendation_words == AnyIn(RecommendationWords, response_lower)
    IN  /\ (has_product_keywords \/ has_brand_keywords)
        /\ \/ has_recommendation_words
           \/ has_numbered_list(text)
           \/ has_bullet_points(text)

---------------------------------------------------------------------------
(* _extract_products *)

\* One attempt of r'(\d+)\.\s*([^.\n]+)' at index p.  \d+ takes the digit run
\* (a shorter run is followed by a digit, never by '.'); \s* takes the whole
\* whitespace run and gives characters back, last first, until [^.\n]+ can
\* take at least one character.
ItemMatchAt(s, p) ==
    IF p > Len(s) \/ ~IsDigit(s[p]) THEN [ok |-> FALSE]
    ELSE LET d == RunEnd(s, p, "\\d")
         IN  IF d >= Len(s) \/ s[d + 1] # "." THEN [ok |-> FALSE]
             ELSE LET w == RunEnd(s, d + 2, "\\s")
                      starts == {c \in (d + 2)..(w + 1) :
                                    c <= Len(s) /\ NotDotNewline(s[c])}
                  IN  IF starts = {} THEN [ok |-> FALSE]
                      ELSE LET c == SetMax(starts)
                               e == RunEnd(s, c, "[^.\\n]")
                           IN  [ok |-> TRUE,
                                number |-> SubSeq(s, p, d),
                                content |-> SubSeq(s, c, e),
                                end |-> e]

RECURSIVE FindItemsFrom(_, _)
FindItemsFrom(s, p) ==
    IF p > Len(s) THEN <<>>
    ELSE LET m == ItemMatchAt(s, p)
         IN  IF m.ok
             THEN <<[number |-> m.number, content |-> m.content]>>
                  \o FindItemsFrom(s, m.end + 1)
             ELSE FindItemsFrom(s, p + 1)

\* re.findall(r'(\d+)\.\s*([^.\n]+)', s): leftmost non-overlapping matches
numbered_items(s) == FindItemsFrom(s, 1)

IsCurrency(c) == c \in {Rupee, "$"}

\* re.search(r'[₹$]\s*[\d,]+', content): group(0) of the leftmost match, "" if none
price_of(content) ==
    LET EndAt(i) == RunEnd(content, RunEnd(content, i + 1, "\\s") + 1, "[\\d,]")
        hits == {i \in 1..Len(content) :
                    /\ IsCurrency(content[i])
                    /\ EndAt(i) > RunEnd(content, i + 1, "\\s")}
    IN  IF hits = {} THEN <<>>
        ELSE SubSeq(content, SetMin(hits), EndAt(SetMin(hits)))

\* One attempt of r'(\d+\.?\d*)/5' at index i: the end of group 1, 0 if no match.
\* Group 1 is a digit run, an optional '.', a digit run; giving characters back
\* leaves a digit or the '.' in front of the '/', so only the greedy reading matches.
RatingEndAt(s, i) ==
    IF ~IsDigit(s[i]) THEN 0
    ELSE LET a == RunEnd(s, i, "\\d")
             b == IF a < Len(s) /\ s[a + 1] = "."
                  THEN RunEnd(s, a + 2, "\\d") ELSE a
         IN  IF StartsAt(s, b + 1, <<"/", "5">>) THEN b ELSE 0

\* re.search(r'(\d+\.?\d*)/5', content): group(1) of the leftmost match, "" if none
rating_of(content) ==
    LET hits == {i \in 1..Len(content) : RatingEndAt(content, i) > 0}
    IN  IF hits = {} THEN <<>>
        ELSE SubSeq(content, SetMin(hits), RatingEndAt(content, SetMin(hits)))

\* content.split(' - ')[0].strip()
product_name_of(content) == strip(split(content, <<" ", "-", " ">>)[1])

RECURSIVE ProductsOf(_)
ProductsOf(items) ==
    IF items = <<>> THEN <<>>
    ELSE LET content == Head(items).content
             product_name == product_name_of(content)
         IN  (IF product_name # <<>>
              THEN <<[name |-> product_name,
                      price |-> price_of(content),
                      rating |-> rating_of(content),
                      description |-> strip(content)]>>
              ELSE <<>>)
             \o ProductsOf(Tail(items))

_extract_products(text) == ProductsOf(numbered_items(text))

---------------------------------------------------------------------------
(* Markup: the literal pieces of the templates *)

CardsOpen ==
    "\n        <div class=\"product-recommendation\">\n            <h4><i class=\"fas fa-star\"></i>Product Recommendations</h4>\n            <p class=\"recommendation-intro\">"
CardsIntroClose ==
    "</p>\n            <div class=\"product-list\">\n        "
ItemOpen ==
    "\n                <div class=\"product-item\">\n                    <div class=\"product-name\">\n                        <i class=\"fas fa-mobile-alt\"></i>\n                        <strong>"
ItemIndexSep ==
    ". "
ItemNameClose ==
    "</strong>\n                    </div>\n                    <div class=\"product-description\">\n                        "
ItemDescriptionClose ==
    "\n                    </div>\n                    "
PriceOpen ==
    "<div class=\"product-price\">"
PriceClose ==
    "</div>"
ItemPriceRatingSep ==
    "\n                    "
RatingOpen ==
    "<div class=\"product-rating\"><span class=\"stars\">"
RatingMid ==
    "</span> <span>"
RatingClose ==
    "/5</span></div>"
ItemClose ==
    "\n                </div>\n            "
CardsClose ==
    "\n            </div>\n            <div class=\"disclaimer\">\n                <i class=\"fas fa-info-circle\"></i>\n                Recommendations are based on available product data and reviews.\n            </div>\n        </div>\n        "
StarFull ==
    "<i class='fas fa-star stars'></i>"
StarHalf ==
    "<i class='fas fa-star-half-alt stars'></i>"
GeneralOpen ==
    "<div class=\"general-response\">"
GeneralClose ==
    "</div>"
ParagraphOpen ==
    "<p class=\"response-paragraph\">"
ParagraphClose ==
    "</p>"
ListOpen ==
    "<ul class=\"response-list\">"
ListClose ==
    "</ul>"
ListItemOpen ==
    "<li class=\"response-list-item\">"
ListItemClose ==
    "</li>"
FallbackOpen ==
    "\n        <div class=\"general-response\">\n            <p class=\"response-paragraph\">"
FallbackClose ==
    "</p>\n        </div>\n        "

\* the value of a call: returned, or an exception raised out of it
Return(v) == [exc |-> FALSE, val |-> v]
Raise(e) == [exc |-> TRUE, val |-> e]

---------------------------------------------------------------------------
(* _get_recommendation_intro *)

DefaultIntro == Chars("Here are some product recommendations based on your query:")

_get_recommendation_intro(text) ==
    LET sentences == split(text, <<".">>)
        \* the loop leaves at the first sentence in which r'\d+\.' is found
        stops == {i \in 1..Len(sentences) : has_numbered_list(sentences[i])}
        n == IF stops = {} THEN Len(sentences) ELSE SetMin(stops) - 1
        intro_parts == [i \in 1..n |-> strip(sentences[i])]
        joined == strip(join(<<".", " ">>, intro_parts))
        intro == IF joined # <<>> /\ joined[Len(joined)] # "."
                 THEN joined \o <<".">> ELSE joined
    IN  IF intro # <<>> THEN intro ELSE DefaultIntro

---------------------------------------------------------------------------
(* _create_product_cards *)

DigitChars == Chars("0123456789")
DigitValue(c) == (CHOOSE k \in 1..10 : DigitChars[k] = c) - 1

RECURSIVE Pow10(_)
Pow10(n) == IF n = 0 THEN 1 ELSE 10 * Pow10(n - 1)

RECURSIVE DecimalValue(_)
DecimalValue(ds) ==
    IF ds = <<>> THEN 0
    ELSE 10 * DecimalValue(SubSeq(ds, 1, Len(ds) - 1)) + DigitValue(ds[Len(ds)])

\* float(rating) for a rating r'\d+\.?\d*': the fraction num/den, or inf.
\* An integer part holding the run of 400 nines is past the largest double and
\* converts to inf; fraction digits from such a run on lie below the precision
\* of a double, which rounds the digits before them up by one unit.
float(rating) ==
    LET dots == {i \in 1..Len(rating) : rating[i] = "."}
        dot == IF dots = {} THEN Len(rating) + 1 ELSE SetMin(dots)
        whole == SubSeq(rating, 1, dot - 1)
        frac == SubSeq(rating, dot + 1, Len(rating))
        runs == {i \in 1..Len(frac) : frac[i] = Nines400}
        exact == IF runs = {} THEN frac ELSE SubSeq(frac, 1, SetMin(runs) - 1)
        den == Pow10(Len(exact))
    IN  IF \E i \in 1..Len(whole) : whole[i] = Nines400
        THEN [inf |-> TRUE, num |-> 0, den |-> 1]
        ELSE [inf |-> FALSE,
              num |-> DecimalValue(whole) * den + DecimalValue(exact)
                      + (IF runs = {} THEN 0 ELSE 1),
              den |-> den]

\* int(x): truncation; OverflowError on inf
int(x) == IF x.inf THEN Raise("OverflowError") ELSE Return(x.num \div x.den)

\* x % 1 > 0.5
FractionOverHalf(x) == 2 * (x.num % x.den) > x.den

\* x % 1 >= 0.5
FractionAtLeastHalf(x) == 2 * (x.num % x.den) >= x.den

\* stars_html of one product with a non-empty rating
StarsHtml(rating) ==
    LET rating_num == float(rating)
        full == int(rating_num)
    IN  IF full.exc THEN full
        ELSE Return([k \in 1..full.val |-> StarFull]
                    \o (IF FractionAtLeastHalf(rating_num) THEN <<StarHalf>> ELSE <<>>))

RECURSIVE str(_)
\* str(i) of an int i >= 0
str(i) == IF i < 10 THEN <<DigitChars[i + 1]>>
          ELSE str(i \div 10) \o <<DigitChars[(i % 10) + 1]>>

\* the block appended to html for product number i (enumerate(products, 1))
ProductItem(i, product) ==
    LET stars == IF product.rating # <<>> THEN StarsHtml(product.rating)
                 ELSE Return(<<>>)
    IN  IF stars.exc THEN stars
        ELSE Return(
            <<ItemOpen>> \o str(i) \o <<ItemIndexSep>> \o product.name
            \o <<ItemNameClose>> \o product.description \o <<ItemDescriptionClose>>
            \o (IF product.price # <<>>
                THEN <<PriceOpen>> \o product.price \o <<PriceClose>> ELSE <<>>)
            \o <<ItemPriceRatingSep>>
            \o (IF product.rating # <<>>
                THEN <<RatingOpen>> \o stars.val \o <<RatingMid>>
                     \o product.rating \o <<RatingClose>>
                ELSE <<>>)
            \o <<ItemClose>>)

_create_product_cards(products, original_response) ==
    LET items == [i \in 1..Len(products) |-> ProductItem(i, products[i])]
        raising == {i \in 1..Len(products) : items[i].exc}
    IN  IF raising # {} THEN items[SetMin(raising)]
        ELSE Return(
            <<CardsOpen>> \o _get_recommendation_intro(original_response)
            \o <<CardsIntroClose>>
            \o Concat([i \in 1..Len(products) |-> items[i].val])
            \o <<CardsClose>>)

---------------------------------------------------------------------------
(* _format_list, _format_general_response, _format_fallback_response *)

\* re.sub(r'^[-•*]\s*', '', line)
StripBulletMarker(line) ==
    IF line # <<>> /\ IsBulletMarker(line[1])
    THEN SubSeq(line, RunEnd(line, 2, "\\s") + 1, Len(line))
    ELSE line

\* re.sub(r'^\d+\.\s*', '', line)
StripNumberMarker(line) ==
    IF line # <<>> /\ IsDigit(line[1])
    THEN LET d == RunEnd(line, 1, "\\d")
         IN  IF d < Len(line) /\ line[d + 1] = "."
             THEN SubSeq(line, RunEnd(line, d + 2, "\\s") + 1, Len(line))
             ELSE line
    ELSE line

RECURSIVE ListItems(_)
ListItems(lines) ==
    IF lines = <<>> THEN <<>>
    ELSE LET line == strip(Head(lines))
             text == StripNumberMarker(StripBulletMarker(line))
         IN  (IF line # <<>> /\ text # <<>>
              THEN <<ListItemOpen>> \o text \o <<ListItemClose>> ELSE <<>>)
             \o ListItems(Tail(lines))

_format_list(text) ==
    <<ListOpen>> \o ListItems(split(text, <<"\n">>)) \o <<ListClose>>

\* re.search(r'^[-•*]\s', paragraph) or re.search(r'^\d+\.\s', paragraph)
IsListParagraph(paragraph) ==
    \/ /\ Len(paragraph) >= 2
       /\ IsBulletMarker(paragraph[1])
       /\ IsSpace(paragraph[2])
    \/ /\ paragraph # <<>>
       /\ IsDigit(paragraph[1])
       /\ LET d == RunEnd(paragraph, 1, "\\d")
          IN  /\ d + 2 <= Len(paragraph)
              /\ paragraph[d + 1] = "."
              /\ IsSpace(paragraph[d + 2])

RECURSIVE Paragraphs(_)
Paragraphs(paragraphs) ==
    IF paragraphs = <<>> THEN <<>>
    ELSE LET paragraph == strip(Head(paragraphs))
         IN  (IF paragraph = <<>> THEN <<>>
              ELSE IF IsListParagraph(paragraph) THEN _format_list(paragraph)
              ELSE <<ParagraphOpen>> \o paragraph \o <<ParagraphClose>>)
             \o Paragraphs(Tail(paragraphs))

_format_general_response(text) ==
    <<GeneralOpen>> \o Paragraphs(split(text, <<"\n", "\n">>)) \o <<GeneralClose>>

_format_fallback_response(text) == <<FallbackOpen>> \o text \o <<FallbackClose>>

---------------------------------------------------------------------------
(* _format_product_recommendation, format_response, format_llm_response *)

\* without the test for an empty product list
_format_product_recommendation_unchecked(text) ==
    _create_product_cards(_extract_products(text), text)

_format_product_recommendation(text) ==
    LET products == _extract_products(text)
    IN  IF products # <<>> THEN _create_product_cards(products, text)
        ELSE Return(_format_general_response(text))

\* the body of the try block, given the cleaned response
FormatCleaned(self, cleaned) ==
    IF _is_product_recommendation(self, cleaned)
    THEN _format_product_recommendation(cleaned)
    ELSE Return(_format_general_response(cleaned))

\* without the try/except
format_response_unguarded(self, text) == FormatCleaned(self, _clean_response(text))

format_response(self, text) ==
    LET body == FormatCleaned(self, _clean_response(text))
    IN  IF body.exc THEN Return(_format_fallback_response(text)) ELSE body

\* the module-level instance, as the state holds it
response_formatter ==
    [product_keywords |-> product_keywords, brand_keywords |-> brand_keywords]

format_llm_response(text) == format_response(response_formatter, text)

---------------------------------------------------------------------------
(* Bounds and input sets *)

NumThreads == 2
MaxCleanLen == 5
MaxClassifyFrags == 3
MaxItems == 2
MaxIntroLen == 5
MaxWholeDigits == 1
MaxFracDigits == 2
MaxFormatFrags == 4

Threads == 1..NumThreads

RECURSIVE Texts(_, _)
\* every concatenation of at most n fragments of frags
Texts(frags, n) ==
    IF n = 0 THEN {<<>>}
    ELSE LET shorter == Texts(frags, n - 1)
         IN  shorter \cup {t \o f : t \in shorter, f \in frags}

\* answers handed to concurrent calls of format_llm_response
CallInputs ==
    { Chars("- Item one\n- Item two"),
      Chars(" I recommend  a *smartphone*. "),
      Chars("Best phones: 1. Phone A - $300 4/5 2. Phone B - ") \o <<Rupee>>
          \o Chars("20,000"),
      Chars("phone 1. B ") \o <<Nines400>> \o Chars("/5"),
      Chars("Hello   world") }

CleanInputs == Texts({<<" ">>, <<"\n">>, <<"*">>, <<"a">>}, MaxCleanLen)

ClassifyFrags ==
    { Chars("phone"), Chars("Sony"), Chars("best"), <<"1">>, <<".">>, <<"-">>,
      <<Bullet>>, <<" ">>, <<"\n">>, <<"x">> }

ClassifyInputs == Texts(ClassifyFrags, MaxClassifyFrags)

IntroInputs == Texts({<<"1">>, <<".">>, <<" ">>, <<"a">>}, MaxIntroLen)

FormatFrags ==
    { Chars("phone"), Chars("best"), Chars("1. B"), <<" ", Nines400, "/", "5">>,
      Chars(" 3/5"), <<"\n">>, Chars("- a") }

FormatInputs == Texts(FormatFrags, MaxFormatFrags)

\* Numbered items as a model answer writes them: "<k>. <name> - <price> <r>/5",
\* "<k>. <name> - <price>" and, without the separator, "<k>. <name>"; a name may
\* be empty or blank.  NoField stands for a part that is not written.
NoField == <<"none">>
ItemNames == {Chars("Phone A"), Chars("B"), <<>>, <<" ">>}
ItemPrices == {<<Rupee>> \o Chars("20,000"), Chars("$300")}
ItemRatings == {Chars("4.5"), Chars("4")}

ItemSpecs ==
    [name : ItemNames, price : ItemPrices, rating : ItemRatings \cup {NoField}]
    \cup [name : ItemNames, price : {NoField}, rating : {NoField}]

\* the text of one item after its "<k>. " marker
ItemBody(it) ==
    it.name
    \o (IF it.price = NoField THEN <<>> ELSE Chars(" - ") \o it.price)
    \o (IF it.rating = NoField THEN <<>> ELSE <<" ">> \o it.rating \o Chars("/5"))

ItemLists == UNION {[1..n -> ItemSpecs] : n \in 0..MaxItems}

\* the items numbered from 1, one per line
ListText(items) ==
    join(<<"\n">>, [k \in 1..Len(items) |-> str(k) \o Chars(". ") \o ItemBody(items[k])])

ExtractInputs == {ListText(items) : items \in ItemLists}

\* ratings r'\d+\.?\d*': at most MaxWholeDigits whole digits, then nothing, a
\* '.', or a '.' and at most MaxFracDigits fraction digits; and no rating
RatingDigits == {"0", "3", "4", "5", "9"}
DigitStrings(n) == UNION {[1..k -> RatingDigits] : k \in 1..n}
RatingStrings ==
    {<<>>}
    \cup DigitStrings(MaxWholeDigits)
    \cup {w \o <<".">> : w \in DigitStrings(MaxWholeDigits)}
    \cup {w \o <<".">> \o f : w \in DigitStrings(MaxWholeDigits),
                              f \in DigitStrings(MaxFracDigits)}

ProductWithRating(r) ==
    [name |-> Chars("Phone A"), price |-> Chars("$300"), rating |-> r,
     description |-> Chars("Phone A - $300")]

\* arguments of _create_product_cards: one or two products
CardsInputs ==
    {[products |-> <<ProductWithRating(r)>>, original_response |-> Chars("Top phones")]
        : r \in RatingStrings}
    \cup {[products |-> <<ProductWithRating(Chars("4.5")), ProductWithRating(r)>>,
           original_response |-> Chars("Top phones")] : r \in RatingStrings}

---------------------------------------------------------------------------
(* Concurrent calls of format_llm_response on the shared instance *)

Init ==
    /\ product_keywords = ProductKeywords
    /\ brand_keywords = BrandKeywords
    /\ pc = [t \in Threads |-> "idle"]
    /\ response = [t \in Threads |-> <<>>]
    /\ cleaned_response = [t \in Threads |-> <<>>]
    /\ result = [t \in Threads |-> <<>>]
    /\ op = "none"
    /\ arg = <<>>
    /\ ret = <<>>

\* a request thread enters format_llm_response(s)
Call(t) ==
    /\ pc[t] = "idle"
    /\ \E s \in CallInputs : response' = [response EXCEPT ![t] = s]
    /\ pc' = [pc EXCEPT ![t] = "clean"]
    /\ cleaned_response' = [cleaned_response EXCEPT ![t] = <<>>]
    /\ result' = [result EXCEPT ![t] = <<>>]
    /\ UNCHANGED <<product_keywords, brand_keywords, op, arg, ret>>

\* the cleaned text kept on the shared instance instead of in a local
CleanOnInstance(t) ==
    /\ pc[t] = "clean"
    /\ cleaned_response' = [u \in Threads |-> _clean_response(response[t])]
    /\ pc' = [pc EXCEPT ![t] = "classify"]
    /\ UNCHANGED <<product_keywords, brand_keywords, response, result, op, arg, ret>>

\* cleaned_response = self._clean_response(response)
Clean(t) ==
    /\ pc[t] = "clean"
    /\ cleaned_response' =
           [cleaned_response EXCEPT ![t] = _clean_response(response[t])]
    /\ pc' = [pc EXCEPT ![t] = "classify"]
    /\ UNCHANGED <<product_keywords, brand_keywords, response, result, op, arg, ret>>

\* if self._is_product_recommendation(cleaned_response)
Classify(t) ==
    /\ pc[t] = "classify"
    /\ pc' = [pc EXCEPT ![t] =
                 IF _is_product_recommendation(response_formatter, cleaned_response[t])
                 THEN "product" ELSE "general"]
    /\ UNCHANGED <<product_keywords, brand_keywords, response, cleaned_response,
                   result, op, arg, ret>>

\* return self._format_product_recommendation(cleaned_response)
FormatProduct(t) ==
    /\ pc[t] = "product"
    /\ LET r == _format_product_recommendation(cleaned_response[t])
       IN  IF r.exc
           THEN /\ pc' = [pc EXCEPT ![t] = "except"]
                /\ UNCHANGED result
           ELSE /\ pc' = [pc EXCEPT ![t] = "done"]
                /\ result' = [result EXCEPT ![t] = r.val]
    /\ UNCHANGED <<product_keywords, brand_keywords, response, cleaned_response,
                   op, arg, ret>>

\* return self._format_general_response(cleaned_response)
FormatGeneral(t) ==
    /\ pc[t] = "general"
    /\ result' = [result EXCEPT ![t] = _format_general_response(cleaned_response[t])]
    /\ pc' = [pc EXCEPT ![t] = "done"]
    /\ UNCHANGED <<product_keywords, brand_keywords, response, cleaned_response,
                   op, arg, ret>>

\* except Exception: return self._format_fallback_response(response)
Except(t) ==
    /\ pc[t] = "except"
    /\ result' = [result EXCEPT ![t] = _format_fallback_response(response[t])]
    /\ pc' = [pc EXCEPT ![t] = "done"]
    /\ UNCHANGED <<product_keywords, brand_keywords, response, cleaned_response,
                   op, arg, ret>>

\* the caller takes the value; the frame of the call is gone
Finish(t) ==
    /\ pc[t] = "done"
    /\ pc' = [pc EXCEPT ![t] = "idle"]
    /\ response' = [response EXCEPT ![t] = <<>>]
    /\ cleaned_response' = [cleaned_response EXCEPT ![t] = <<>>]
    /\ result' = [result EXCEPT ![t] = <<>>]
    /\ UNCHANGED <<product_keywords, brand_keywords, op, arg, ret>>

Next ==
    \E t \in Threads :
        \/ Call(t)
        \/ Clean(t)
        \/ Classify(t)
        \/ FormatProduct(t)
        \/ FormatGeneral(t)
        \/ Except(t)
        \/ Finish(t)

Spec == Init /\ [][Next]_vars

---------------------------------------------------------------------------
(* One direct call of one method *)

\* the formatter as constructed, no call in progress, the argument chosen
InitCall(inputs) ==
    /\ product_keywords = ProductKeywords
    /\ brand_keywords = BrandKeywords
    /\ pc = [t \in Threads |-> "idle"]
    /\ response = [t \in Threads |-> <<>>]
    /\ cleaned_response = [t \in Threads |-> <<>>]
    /\ result = [t \in Threads |-> <<>>]
    /\ op = "none"
    /\ arg \in inputs
    /\ ret = <<>>

Returned(name, value) ==
    /\ op = "none"
    /\ op' = name
    /\ ret' = value
    /\ UNCHANGED <<product_keywords, brand_keywords, pc, response,
                   cleaned_response, result, arg>>

CallClean == Returned("_clean_response", _clean_response(arg))
InitClean == InitCall(CleanInputs)
SpecClean == InitClean /\ [][CallClean]_vars

CallClassify ==
    Returned("_is_product_recommendation",
             _is_product_recommendation(response_formatter, arg))
InitClassify == InitCall(ClassifyInputs)
SpecClassify == InitClassify /\ [][CallClassify]_vars

CallIntro == Returned("_get_recommendation_intro", _get_recommendation_intro(arg))
InitIntro == InitCall(IntroInputs)
SpecIntro == InitIntro /\ [][CallIntro]_vars

CallFormat == Returned("format_llm_response", format_llm_response(arg))
InitFormat == InitCall(FormatInputs)
SpecFormat == InitFormat /\ [][CallFormat]_vars

CallExtract == Returned("_extract_products", _extract_products(arg))
InitExtract == InitCall(ExtractInputs)
SpecExtract == InitExtract /\ [][CallExtract]_vars

CallCards ==
    Returned("_create_product_cards",
             _create_product_cards(arg.products, arg.original_response))
InitCards == InitCall(CardsInputs)
SpecCards == InitCards /\ [][CallCards]_vars

---------------------------------------------------------------------------
(* Properties *)

\* the formatter as __init__ leaves it
Constructed == [product_keywords |-> ProductKeywords, brand_keywords |-> BrandKeywords]

Count(seq, x) == Cardinality({k \in 1..Len(seq) : seq[k] = x})

IsMarkup(v) ==
    /\ v # <<>>
    /\ v[1] \in {GeneralOpen, CardsOpen, FallbackOpen}
    /\ v[Len(v)] \in {GeneralClose, CardsClose, FallbackClose}

\* C1: format_llm_response returns markup for every input and never raises; when
\* a stage of the try block raises, the value is the fallback markup around the
\* original, unnormalized input.
C1_Totality ==
    op = "format_llm_response" =>
        /\ ~ret.exc
        /\ IsMarkup(ret.val)
        /\ FormatCleaned(Constructed, _clean_response(arg)).exc =>
               ret.val = <<FallbackOpen>> \o arg \o <<FallbackClose>>

\* a returned call in which a stage raised, on an input that normalization changes
C1_Witness ==
    /\ op = "format_llm_response"
    /\ FormatCleaned(Constructed, _clean_response(arg)).exc
    /\ _clean_response(arg) # arg

\* the records the written items stand for: name, price and rating as written
WrittenRecord(it) ==
    [name |-> it.name,
     price |-> IF it.price = NoField THEN <<>> ELSE it.price,
     rating |-> IF it.rating = NoField THEN <<>> ELSE it.rating]

ExtractedFields(products) ==
    [k \in 1..Len(products) |->
        [name |-> products[k].name, price |-> products[k].price,
         rating |-> products[k].rating]]

NamedWithPrice(it) == strip(it.name) # <<>> /\ it.name = strip(it.name) /\ it.price # NoField

\* C2: for numbered items "<k>. <Name> - <price> <r>/5" or "<k>. <Name> - <price>",
\* _extract_products yields one record per item, in order, with the name, the
\* price and the rating (empty without "/5") as written.
C2_ExtractsItems ==
    op = "_extract_products" =>
        \A items \in ItemLists :
            (arg = ListText(items) /\ \A k \in 1..Len(items) : NamedWithPrice(items[k]))
            => ExtractedFields(ret) = [k \in 1..Len(items) |-> WrittenRecord(items[k])]

\* C3: an item whose content before any " - " is empty or blank yields no record,
\* every record has a non-empty name, and the items after a dropped one are
\* still extracted.
C3_EmptyNameDropped ==
    op = "_extract_products" =>
        /\ \A k \in 1..Len(ret) : ret[k].name # <<>>
        /\ \A items \in ItemLists :
               arg = ListText(items) =>
                   [k \in 1..Len(ret) |-> ret[k].name]
                   = SelectSeq([k \in 1..Len(items) |-> strip(items[k].name)],
                               LAMBDA n : n # <<>>)

\* C4: format never returns a product container without a product item; when
\* the classifier accepts the text and no record is extracted, the result is the
\* generic rendering of the same normalized text.
C4_NoEmptyProductBlock ==
    op = "format_llm_response" =>
        /\ Count(ret.val, CardsOpen) > 0 => Count(ret.val, ItemOpen) > 0
        /\ ( /\ _is_product_recommendation(Constructed, _clean_response(arg))
             /\ _extract_products(_clean_response(arg)) = <<>> )
           => ret.val = _format_general_response(_clean_response(arg))

C4_Witness ==
    /\ op = "format_llm_response"
    /\ _is_product_recommendation(Constructed, _clean_response(arg))
    /\ _extract_products(_clean_response(arg)) = <<>>

\* the part of the markup that belongs to product number i
ItemBlock(v, i) ==
    LET opens == {k \in 1..Len(v) : v[k] = ItemOpen}
        Nth(n) == CHOOSE k \in opens : Cardinality({j \in opens : j <= k}) = n
    IN  SubSeq(v, Nth(i), IF i < Cardinality(opens) THEN Nth(i + 1) - 1 ELSE Len(v))

StarGlyphs(block) == SelectSeq(block, LAMBDA x : x \in {StarFull, StarHalf})

\* floor(r), and whether the fractional part of r is at least 0.5, read off the
\* decimal digits of r
WholeDigits(r) ==
    SubSeq(r, 1, SetMin({i \in 1..Len(r) : r[i] = "."} \cup {Len(r) + 1}) - 1)
FloorOfRating(r) == DecimalValue(WholeDigits(r))
HalfOrMore(r) ==
    /\ Len(r) >= Len(WholeDigits(r)) + 2
    /\ r[Len(WholeDigits(r)) + 2] \in {"5", "6", "7", "8", "9"}

BulletLines(text) ==
    LET lines == split(text, <<"\n">>)
    IN  \A k \in 1..Len(lines) :
            /\ Len(lines[k]) >= 3
            /\ IsBulletMarker(lines[k][1])
            /\ IsSpace(lines[k][2])
            /\ strip(SubSeq(lines[k], 3, Len(lines[k]))) # <<>>
            /\ lines[k] = strip(lines[k])

\* C6: a generic answer made of bullet lines is rendered by format as a list with
\* one item per line, the leading marker removed.
C6_BulletList ==
    ( /\ op = "format_llm_response"
      /\ BulletLines(arg)
      /\ ~_is_product_recommendation(Constructed, _clean_response(arg)) )
    => LET lines == split(arg, <<"\n">>)
       IN  ret.val = <<GeneralOpen, ListOpen>>
                     \o Concat([k \in 1..Len(lines) |->
                                   <<ListItemOpen>>
                                   \o strip(SubSeq(lines[k], 3, Len(lines[k])))
                                   \o <<ListItemClose>>])
                     \o <<ListClose, GeneralClose>>

\* C7: no call changes the keyword vocabularies, and the value every call
\* returns is the value of that call run alone on its own input, whatever the
\* other threads are doing.
C7_Stateless ==
    /\ product_keywords = ProductKeywords
    /\ brand_keywords = BrandKeywords
    /\ \A t \in Threads :
           pc[t] = "done" => result[t] = format_response(Constructed, response[t]).val

\* one call has returned while another, on a different input, is in progress
C7_Witness ==
    \E t, u \in Threads :
        /\ pc[t] = "done"
        /\ pc[u] \in {"classify", "product", "general", "except"}
        /\ response[t] # response[u]

\* c and d are the same letter up to case
SameLetter(c, d) == c = d \/ \E k \in 1..26 : {c, d} = {UpperCase[k], LowerCase[k]}

MentionsAny(text, words) ==
    \E w \in 1..Len(words) : \E i \in 0..(Len(text) - Len(words[w])) :
        \A j \in 1..Len(words[w]) : SameLetter(text[i + j], words[w][j])

IntegerThenPeriod(text) ==
    \E i \in 1..(Len(text) - 1) : IsDigit(text[i]) /\ text[i + 1] = "."

MarkerThenSpace(text, i) ==
    i < Len(text) /\ text[i] \in {"-", Bullet, "*"} /\ IsSpace(text[i + 1])

LineBeginsWithMarker(text) ==
    \E i \in 1..Len(text) : (i = 1 \/ text[i - 1] = "\n") /\ MarkerThenSpace(text, i)

MarkerAnywhere(text) == \E i \in 1..Len(text) : MarkerThenSpace(text, i)

\* C8 as stated: true iff (a product noun or a brand) and (an intent word, or
\* an integer followed by a period, or a line beginning with a dash, bullet or
\* asterisk followed by whitespace).
C8_DecisionRuleLineStart ==
    op = "_is_product_recommendation" =>
        ret = ( /\ MentionsAny(arg, ProductKeywords) \/ MentionsAny(arg, BrandKeywords)
                /\ \/ MentionsAny(arg, RecommendationWords)
                   \/ IntegerThenPeriod(arg)
                   \/ LineBeginsWithMarker(arg) )

\* C8 amended: the third alternative is a dash, bullet or asterisk followed by
\* whitespace at any position of the text.
C8_DecisionRule ==
    op = "_is_product_recommendation" =>
        ret = ( /\ MentionsAny(arg, ProductKeywords) \/ MentionsAny(arg, BrandKeywords)
                /\ \/ MentionsAny(arg, RecommendationWords)
                   \/ IntegerThenPeriod(arg)
                   \/ MarkerAnywhere(arg) )

\* accepted on a marker inside a line alone
C8_Witness ==
    /\ op = "_is_product_recommendation"
    /\ ret = TRUE
    /\ ~MentionsAny(arg, RecommendationWords)
    /\ ~IntegerThenPeriod(arg)
    /\ ~LineBeginsWithMarker(arg)

StartsWithNumberMarker(text) ==
    /\ text # <<>>
    /\ IsDigit(text[1])
    /\ LET d == RunEnd(text, 1, "\\d")
       IN  d < Len(text) /\ text[d + 1] = "."

\* C9: the intro holds only what precedes the first numbered-list marker, so a
\* text with a marker never gives an intro with one; a text that starts with a
\* marker gives the default sentence.
C9_IntroBeforeList ==
    op = "_get_recommendation_intro" =>
        /\ IntegerThenPeriod(arg) => ~IntegerThenPeriod(ret)
        /\ StartsWithNumberMarker(arg) => ret = DefaultIntro

\* C10: the result of _clean_response has no asterisk, no leading or trailing
\* whitespace and no two consecutive whitespace characters, and is empty on
\* empty input.
C10_Normalized ==
    op = "_clean_response" =>
        /\ \A i \in 1..Len(ret) : ret[i] # "*"
        /\ ret # <<>> => ~IsSpace(ret[1]) /\ ~IsSpace(ret[Len(ret)])
        /\ \A i \in 1..(Len(ret) - 1) : ~(IsSpace(ret[i]) /\ IsSpace(ret[i + 1]))
        /\ arg = <<>> => ret = <<>>

=============================================================================
